---- MODULE Spec2Model ----
(***************************************************************************)
(* Model of the ChatBot of main.py: the presence store, the roster (the    *)
(* contact directory kept by the XMPP client), the presence, subscription  *)
(* and message handlers and the event loop that calls them.                *)
(*                                                                         *)
(* Python strings are modelled as sequences of one-character strings, so   *)
(* that startswith, split and the %-formatting are computed, not assumed.  *)
(* Literal texts of the source that are never inspected (the confirmation  *)
(* and the announcement infix, both Chinese in the source) are one token.  *)
(***************************************************************************)
EXTENDS Integers, Sequences, FiniteSets, TLC

\* ------------------------------------------------------------------ bounds
\* the number of inbound events the loop handles in one run
MaxEvents == 3

\* ------------------------------------------------------------ identities
\* the bare JIDs that occur, in the order the roster iterates them
Contacts == <<"alice@a.org", "bob@b.org", "carol@a.org">>

Bares == {Contacts[i] : i \in 1..Len(Contacts)}

Resources == {"home", "work"}

\* Python's None where a string-valued attribute is absent
None == "None"

\* jid.local
Local(b) ==
  CASE b = "alice@a.org" -> <<"a", "l">>
    [] b = "bob@b.org"   -> <<"b", "o">>
    [] b = "carol@a.org" -> <<"c", "a">>

\* JID objects: a bare JID has resource None
FullJID(b, r) == [bare |-> b, resource |-> r]

BareJID(b) == [bare |-> b, resource |-> None]

\* JID.bare()
bare(jid) == BareJID(jid.bare)

Senders == {FullJID(b, r) : b \in Bares, r \in Resources}

\* the JIDs subscription stanzas come from
Requesters == {FullJID(b, "home") : b \in Bares}

\* ---------------------------------------------------------------- strings
Ping == <<"p", "i", "n", "g">>

Pong == <<"p", "o", "n", "g">>

NickPrefix == <<"-", "n", "i", "c", "k", " ">>

\* the body attribute of a stanza without <body/> is None
NoBody == <<"None">>

\* the fixed confirmation text of line 128
NickUpdated == <<"<nick-updated>">>

\* the infix and the full stop of the announcement of line 129
NowKnownAs == <<" ", "<is-now-known-as>", " ">>

FullStop == <<"<.>">>

Whitespace == {" ", "\t"}

\* the message bodies the environment sends
Bodies ==
  { NoBody,
    Ping,
    <<"h", "i">>,
    <<"-", "n", "i", "c", "k">>,
    <<"-", "n", "i", "c", "k", " ", "B", "o">>,
    <<"-", "n", "i", "c", "k", " ", " ", "A", "l", " ">>,
    <<"-", "n", "i", "c", "k", " ">>,
    <<"-", "n", "i", "c", "k", " ", "\t">> }

\* str.startswith
startswith(s, p) ==
  /\ Len(s) >= Len(p)
  /\ SubSeq(s, 1, Len(p)) = p

\* the index of the first character of s at or after i that is (ws = TRUE)
\* or is not (ws = FALSE) whitespace; Len(s) + 1 when there is none
RECURSIVE Scan(_, _, _)
Scan(s, i, ws) ==
  IF i > Len(s) THEN Len(s) + 1
  ELSE IF (s[i] \in Whitespace) = ws THEN i
  ELSE Scan(s, i + 1, ws)

\* str.split(None, 1): the list of at most two words; leading whitespace is
\* skipped, the first run of whitespace separates, the rest is kept as it is
split(s) ==
  LET b1 == Scan(s, 1, FALSE)
      e1 == Scan(s, b1, TRUE)
      b2 == Scan(s, e1, FALSE)
  IN  IF b1 > Len(s) THEN <<>>
      ELSE IF b2 > Len(s) THEN <<SubSeq(s, b1, e1 - 1)>>
      ELSE <<SubSeq(s, b1, e1 - 1), SubSeq(s, b2, Len(s))>>

\* ------------------------------------------------------------- hashjid
\* the first six hex digits of md5(local/domain + salt): one token per JID
Md5Hex6(b) ==
  CASE b = "alice@a.org" -> <<"<3f2a9c>">>
    [] b = "bob@b.org"   -> <<"<b071e4>">>
    [] b = "carol@a.org" -> <<"<58d0aa>">>

hashjid(jid) == Local(jid.bare) \o <<"@">> \o Md5Hex6(jid.bare)

\* ------------------------------------------------------------------ state
VARIABLES
  presence,   \* self.presence: defaultdict(dict), bare JID -> resource -> record
  roster,     \* self.client.roster: bare JID -> item (name, subscription)
  out,        \* the stanzas the last handler sent or returned, in order
  last,       \* the event the last handler was called with
  ret,        \* what the last handler returned
  raised,     \* the exception the last handler raised, None when it returned
  loop,       \* the main loop of client.run(): running, quit or crashed
  n,          \* the number of events handled
  announced,  \* history: the (bare, resource) pairs whose latest handled
              \* presence announcement was an availability
  nickOf,     \* history: the nickname each contact chose last, if any
  replaced,   \* history: the record the last presence announcement
              \* overwrote or removed, NoRecordYet when there was none
  logged      \* the records get_online_users logged during the last handler

vars == <<presence, roster, out, last, ret, raised, loop, n, announced, nickOf,
          replaced, logged>>

\* a dict without keys
EmptyMap == [x \in {} |-> x]

\* d[k] = v
Put(d, k, v) == [x \in DOMAIN d \cup {k} |-> IF x = k THEN v ELSE d[x]]

\* del d[k], for a key that is present
Del(d, k) == [x \in DOMAIN d \ {k} |-> d[x]]

\* RosterItem.name of an item without a name: None, false like ''
NoName == <<>>

Subscriptions == {"none", "to", "from", "both"}

\* a roster item
Item(name, subscription) == [name |-> name, subscription |-> subscription]

NoPayload == [show |-> None, status |-> None, priority |-> 0]

\* the value of replaced when nothing was overwritten
NoRecordYet == [show |-> None, status |-> None, priority |-> -1]

\* the type attribute of the stanzas that reach handle_presence_available,
\* with the payload each carries
AvailableInputs ==
  { [type |-> "available", payload |-> [show |-> None, status |-> None, priority |-> 0]],
    [type |-> None, payload |-> [show |-> "away", status |-> "brb", priority |-> 5]],
    [type |-> "probe", payload |-> [show |-> None, status |-> None, priority |-> 0]] }

\* an inbound stanza or event
Event(kind, from, type, payload, body) ==
  [kind |-> kind, from |-> from, type |-> type, payload |-> payload, body |-> body]

NoJID == [bare |-> None, resource |-> None]

\* Message(stanza_type = 'chat', to_jid = receiver, body = msg)
Message(receiver, msg) ==
  [stanza |-> "message", type |-> "chat", to |-> receiver, body |-> msg]

\* Presence(to_jid = to, stanza_type = type)
Presence(to, type) ==
  [stanza |-> "presence", type |-> type, to |-> to, body |-> NoBody]

\* self.presence[b] as a read: the dict under b, the default for a missing key
Lookup(pres, b) == IF b \in DOMAIN pres THEN pres[b] ELSE EmptyMap

\* what reading self.presence[b] leaves behind: defaultdict inserts the default
Touch(pres, b) == IF b \in DOMAIN pres THEN pres ELSE Put(pres, b, EmptyMap)

\* IsOnline without the test of the subscription
IsOnlineAnySubscription(ros, pres, c) ==
  /\ c \in DOMAIN ros
  /\ DOMAIN Lookup(pres, c) # {}

\* the roster items get_online_users keeps: subscription both and a non-empty
\* dict in the presence store
IsOnline(ros, pres, c) ==
  /\ c \in DOMAIN ros
  /\ ros[c].subscription = "both"
  /\ DOMAIN Lookup(pres, c) # {}

\* get_online_users: the JIDs of the items kept, in roster order
get_online_users(ros, pres) ==
  SelectSeq(Contacts, LAMBDA c : IsOnline(ros, pres, c))

\* %r of a JID in a log record: the JID as it is, one token
repr_jid(b) == <<b>>

\* online_log counting the roster items instead of the items kept
online_log_all(ros, pres) ==
  LET kept == get_online_users(ros, pres)
  IN  <<[count |-> Cardinality(DOMAIN ros),
         jids |-> [i \in 1..Len(kept) |-> repr_jid(kept[i])]]>>

\* logging.info('%d online buddies: %r', len(ret), [x.jid for x in ret])
online_log(ros, pres) ==
  LET kept == get_online_users(ros, pres)
  IN  <<[count |-> Len(kept),
         jids |-> [i \in 1..Len(kept) |-> repr_jid(kept[i])]]>>

\* the presence store after get_online_users: self.presence[x.jid] is read for
\* every item whose subscription is both
PresenceAfterQuery(ros, pres) ==
  [b \in DOMAIN pres \cup {c \in DOMAIN ros : ros[c].subscription = "both"} |->
     Lookup(pres, b)]

\* get_name: a str becomes JID(str), a JID becomes its bare JID; the roster is
\* keyed by bare JIDs, any other key is a KeyError
get_name(ros, jid, isStr) ==
  LET key == IF isStr THEN jid ELSE bare(jid)
  IN  IF /\ key.resource = None
         /\ key.bare \in DOMAIN ros
         /\ ros[key.bare].name # NoName
      THEN ros[key.bare].name
      ELSE hashjid(key)

\* roster_client.update_item(jid, name, groups): the directory's upsertName
update_item(ros, b, name) ==
  IF b \in DOMAIN ros
  THEN [ros EXCEPT ![b].name = name]
  ELSE Put(ros, b, Item(name, "none"))

\* update_roster storing a fresh item in place of the one listed
update_roster_fresh(ros, jid, name) == Put(ros, jid.bare, Item(name, "none"))

\* update_roster leaving the name as it is (NO_CHANGE)
update_roster_no_change(ros, jid, name) == ros

\* update_roster(jid, name)
update_roster(ros, jid, name) == update_item(ros, jid.bare, name)

\* Relay without the test u.jid != sender
RelayToAll(ros, pres, sender, msg) ==
  LET to == get_online_users(ros, pres)
  IN  [i \in 1..Len(to) |-> Message(BareJID(to[i]), msg)]

\* the sends of the loop "for u in get_online_users(): if u.jid != sender"
Relay(ros, pres, sender, msg) ==
  LET to == SelectSeq(get_online_users(ros, pres), LAMBDA c : BareJID(c) # sender)
  IN  [i \in 1..Len(to) |-> Message(BareJID(to[i]), msg)]

\* the body send_to_all builds
Prefixed(name, msg) == <<"[">> \o name \o <<"]", " ">> \o msg

\* the body of the nickname announcement
Announcement(old_nick, nick) == old_nick \o NowKnownAs \o nick \o FullStop

\* the rosters the server holds when the client connects
InitialRosters ==
  { EmptyMap,
    [b \in Bares |-> Item(NoName, "both")],
    [b \in Bares |->
       CASE b = "alice@a.org" -> Item(NoName, "both")
         [] b = "bob@b.org"   -> Item(<<"R", "o", "b">>, "both")
         [] b = "carol@a.org" -> Item(NoName, "to")] }

Init ==
  /\ presence = EmptyMap
  /\ roster \in InitialRosters
  /\ out = <<>>
  /\ last = Event("none", NoJID, None, NoPayload, NoBody)
  /\ ret = None
  /\ raised = None
  /\ loop = "running"
  /\ n = 0
  /\ announced = {}
  /\ nickOf = [b \in Bares |-> NoName]
  /\ replaced = NoRecordYet
  /\ logged = <<>>

\* the loop takes the next event
Dispatch(ev) ==
  /\ loop = "running"
  /\ n < MaxEvents
  /\ n' = n + 1
  /\ last' = ev
  /\ replaced' = IF /\ \/ ev.kind = "unavailable"
                       \/ ev.kind = "presence" /\ ev.type \in {"available", None}
                    /\ ev.from.resource \in DOMAIN Lookup(presence, ev.from.bare)
                 THEN presence[ev.from.bare][ev.from.resource]
                 ELSE NoRecordYet

\* a handler that returned
Returned(value) ==
  /\ ret' = value
  /\ raised' = None
  /\ loop' = loop

\* mirror addressed to the full JID of the requester
mirror_full(jid, type) == Presence(jid, type)

\* Presence(to_jid = stanza.from_jid.bare(), stanza_type = type)
mirror(jid, type) == Presence(bare(jid), type)

handle_presence_subscribe(jid) ==
  /\ Dispatch(Event("subscribe", jid, "subscribe", NoPayload, NoBody))
  /\ out' = <<Presence(jid, "subscribed"), mirror(jid, "subscribe")>>
  /\ Returned("list")
  /\ logged' = <<>>
  /\ UNCHANGED <<presence, roster, announced, nickOf>>

handle_presence_subscribed(jid) ==
  /\ Dispatch(Event("subscribed", jid, "subscribed", NoPayload, NoBody))
  /\ out' = <<>>
  /\ Returned("True")
  /\ logged' = <<>>
  /\ UNCHANGED <<presence, roster, announced, nickOf>>

handle_presence_unsubscribe(jid) ==
  /\ Dispatch(Event("unsubscribe", jid, "unsubscribe", NoPayload, NoBody))
  /\ out' = <<Presence(jid, "unsubscribed"), mirror(jid, "unsubscribe")>>
  /\ Returned("list")
  /\ logged' = <<>>
  /\ UNCHANGED <<presence, roster, announced, nickOf>>

handle_presence_unsubscribed(jid) ==
  /\ Dispatch(Event("unsubscribed", jid, "unsubscribed", NoPayload, NoBody))
  /\ out' = <<>>
  /\ Returned("True")
  /\ logged' = <<>>
  /\ UNCHANGED <<presence, roster, announced, nickOf>>

\* StoreRecord keeping the record a resource already has (setdefault)
StoreRecordOnce(pres, jid, rec) ==
  IF jid.resource \in DOMAIN Lookup(pres, jid.bare)
  THEN pres
  ELSE Put(pres, jid.bare, Put(Lookup(pres, jid.bare), jid.resource, rec))

\* StoreRecord replacing the whole dict of the bare JID
StoreRecordFresh(pres, jid, rec) ==
  Put(pres, jid.bare, Put(EmptyMap, jid.resource, rec))

\* self.presence[jid.bare()][jid.resource] = {...}
StoreRecord(pres, jid, rec) ==
  Put(pres, jid.bare, Put(Lookup(pres, jid.bare), jid.resource, rec))

\* is_available taking every stanza type
is_available_any(type) == TRUE

\* stanza.stanza_type in ('available', None)
is_available(type) == type \in {"available", None}

handle_presence_available(jid, in) ==
  /\ Dispatch(Event("presence", jid, in.type, in.payload, NoBody))
  /\ out' = <<>>
  /\ IF ~is_available(in.type)
     THEN /\ Returned("False")
          /\ UNCHANGED <<presence, announced>>
     ELSE /\ presence' = StoreRecord(presence, jid, in.payload)
          /\ announced' = announced \cup {<<jid.bare, jid.resource>>}
          /\ Returned("True")
  /\ logged' = <<>>
  /\ UNCHANGED <<roster, nickOf>>

\* DeleteRecord dropping every record of the bare JID
DeleteAllRecords(pres, jid) ==
  [Touch(pres, jid.bare) EXCEPT ![jid.bare] = EmptyMap]

\* del self.presence[jid.bare()][jid.resource] inside try/except KeyError
DeleteRecord(pres, jid) ==
  IF jid.resource \in DOMAIN Lookup(pres, jid.bare)
  THEN [pres EXCEPT ![jid.bare] = Del(pres[jid.bare], jid.resource)]
  ELSE Touch(pres, jid.bare)

handle_presence_unavailable(jid) ==
  /\ Dispatch(Event("unavailable", jid, "unavailable", NoPayload, NoBody))
  /\ out' = <<>>
  /\ presence' = DeleteRecord(presence, jid)
  /\ announced' = announced \ {<<jid.bare, jid.resource>>}
  /\ Returned("True")
  /\ logged' = <<>>
  /\ UNCHANGED <<roster, nickOf>>

\* an exception leaves the handler and client.run(); main() catches only
\* KeyboardInterrupt
Raised(exc) ==
  /\ ret' = None
  /\ raised' = exc
  /\ loop' = "crashed"

\* send_to_all relaying only for a sender that is online itself
send_to_all_if_online(ros, pres, sender, msg) ==
  IF IsOnline(ros, pres, sender.bare)
  THEN Relay(ros, pres, sender, Prefixed(get_name(ros, sender, FALSE), msg))
  ELSE <<>>

\* send_to_all(sender, msg)
send_to_all(ros, pres, sender, msg) ==
  Relay(ros, pres, sender, Prefixed(get_name(ros, sender, FALSE), msg))

\* ping_sends answering the full JID the message came from
ping_sends_full(sender) == <<Message(sender, Pong)>>

\* the ping branch: self.send_message(bare, 'pong')
ping_sends(sender) == <<Message(bare(sender), Pong)>>

\* nick_sends reading the old name after the update
nick_sends_late(ros, pres, sender, nick) ==
  LET updated == update_roster(ros, bare(sender), nick)
      old_nick == get_name(updated, sender, FALSE)
      msg == Announcement(old_nick, nick)
  IN  <<Message(sender, NickUpdated)>> \o Relay(updated, pres, bare(sender), msg)

\* the sends of the -nick branch: the confirmation to the sender, then the
\* announcement, with the name read before the update, to the users that are
\* online after it
nick_sends(ros, pres, sender, nick) ==
  LET old_nick == get_name(ros, sender, FALSE)
      updated == update_roster(ros, bare(sender), nick)
      msg == Announcement(old_nick, nick)
  IN  <<Message(sender, NickUpdated)>> \o Relay(updated, pres, bare(sender), msg)

\* is_typing taking no body for text
is_typing_never(body) == FALSE

\* stanza.body is None: she's typing
is_typing(body) == body = NoBody

handle_message(sender, body) ==
  /\ Dispatch(Event("message", sender, "chat", NoPayload, body))
  /\ IF is_typing(body)
     THEN /\ out' = <<>>
          /\ logged' = <<>>
          /\ Returned("True")
          /\ UNCHANGED <<presence, roster, nickOf>>
     ELSE IF body = Ping
     THEN /\ out' = ping_sends(sender)
          /\ logged' = <<>>
          /\ Returned("True")
          /\ UNCHANGED <<presence, roster, nickOf>>
     ELSE IF startswith(body, NickPrefix)
     THEN IF Len(split(body)) < 2
          THEN /\ out' = <<>>
               /\ logged' = <<>>
               /\ Raised("IndexError")
               /\ UNCHANGED <<presence, roster, nickOf>>
          ELSE LET nick == split(body)[2]
                   ros == update_roster(roster, bare(sender), nick)
               IN  /\ roster' = ros
                   /\ out' = nick_sends(roster, presence, sender, nick)
                   /\ logged' = online_log(ros, presence)
                   /\ presence' = PresenceAfterQuery(ros, presence)
                   /\ nickOf' = [nickOf EXCEPT ![sender.bare] = nick]
                   /\ Returned("True")
     ELSE /\ out' = send_to_all(roster, presence, bare(sender), body)
          /\ logged' = online_log(roster, presence)
          /\ presence' = PresenceAfterQuery(roster, presence)
          /\ Returned("True")
          /\ UNCHANGED <<roster, nickOf>>
  /\ UNCHANGED announced

handle_disconnected ==
  /\ Dispatch(Event("disconnected", NoJID, None, NoPayload, NoBody))
  /\ out' = <<>>
  /\ ret' = "QUIT"
  /\ raised' = None
  /\ loop' = "quit"
  /\ logged' = <<>>
  /\ UNCHANGED <<presence, roster, announced, nickOf>>

handle_all ==
  /\ Dispatch(Event("other", NoJID, None, NoPayload, NoBody))
  /\ out' = <<>>
  /\ Returned(None)
  /\ logged' = <<>>
  /\ UNCHANGED <<presence, roster, announced, nickOf>>

\* the client library receives a roster item from the server: the contact b
\* is listed with subscription sub
RosterPush(b, sub) ==
  /\ Dispatch(Event("roster", BareJID(b), sub, NoPayload, NoBody))
  /\ roster' = IF b \in DOMAIN roster
               THEN [roster EXCEPT ![b].subscription = sub]
               ELSE Put(roster, b, Item(NoName, sub))
  /\ out' = <<>>
  /\ Returned(None)
  /\ logged' = <<>>
  /\ UNCHANGED <<presence, announced, nickOf>>

Next ==
  \/ \E jid \in Requesters : handle_presence_subscribe(jid)
  \/ \E jid \in Requesters : handle_presence_subscribed(jid)
  \/ \E jid \in Requesters : handle_presence_unsubscribe(jid)
  \/ \E jid \in Requesters : handle_presence_unsubscribed(jid)
  \/ \E jid \in Senders, in \in AvailableInputs : handle_presence_available(jid, in)
  \/ \E jid \in Senders : handle_presence_unavailable(jid)
  \/ \E jid \in Senders, body \in Bodies : handle_message(jid, body)
  \/ handle_disconnected
  \/ handle_all
  \/ \E b \in Bares, sub \in Subscriptions : RosterPush(b, sub)

Spec == Init /\ [][Next]_vars

\* ------------------------------------------------- get_name on its own
\* the items a roster holds for a contact: without and with a stored name
NameItems == {Item(NoName, "both"), Item(<<"R", "o", "b">>, "to")}

\* the rosters get_name is called with: any contacts listed, any items
NameRosters == UNION {[D -> NameItems] : D \in SUBSET Bares}

\* the arguments of get_name: a bare or a full JID, as a str or as a JID
NameQueries ==
  {[jid |-> j, isStr |-> t] :
     j \in Senders \cup {BareJID(b) : b \in Bares}, t \in BOOLEAN}

InitNames ==
  /\ presence = EmptyMap
  /\ roster \in NameRosters
  /\ out = <<>>
  /\ last = Event("none", NoJID, None, NoPayload, NoBody)
  /\ ret = None
  /\ raised = None
  /\ loop = "running"
  /\ n = 0
  /\ announced = {}
  /\ nickOf = [b \in Bares |-> NoName]
  /\ replaced = NoRecordYet
  /\ logged = <<>>

\* one call get_name(jid); ret is the name it returns
call_get_name(q) ==
  /\ last' = Event("get_name", q.jid, IF q.isStr THEN "str" ELSE "JID", NoPayload, NoBody)
  /\ ret' = get_name(roster, q.jid, q.isStr)
  /\ raised' = None
  /\ UNCHANGED <<presence, roster, out, loop, n, announced, nickOf, replaced, logged>>

NextNames == \E q \in NameQueries : call_get_name(q)

SpecNames == InitNames /\ [][NextNames]_vars

\* ------------------------------------------------------------ properties
\* the elements of a sequence
Range(s) == {s[i] : i \in 1..Len(s)}

\* the contacts get_online_users() returns in the current state
Online == Range(get_online_users(roster, presence))

\* the subscription of a contact, None for a contact the roster does not list
SubscriptionOf(c) == IF c \in DOMAIN roster THEN roster[c].subscription ELSE None

\* the contacts that are mutually subscribed and have a presence record
Eligible ==
  {c \in Bares : /\ SubscriptionOf(c) = "both"
                 /\ c \in DOMAIN presence
                 /\ DOMAIN presence[c] # {}}

\* the display name of a contact: the stored name, else the pseudonym
DisplayName(ros, c) ==
  IF c \in DOMAIN ros /\ ros[c].name # NoName
  THEN ros[c].name
  ELSE Local(c) \o <<"@">> \o Md5Hex6(c)

\* how many stanzas of out are addressed to the JID to
SentTo(to) == Cardinality({i \in 1..Len(out) : out[i].to = to})

\* the last event was a chat message that took the broadcast path
Broadcast ==
  /\ last.kind = "message"
  /\ last.body # NoBody
  /\ last.body # <<>>
  /\ last.body # Ping
  /\ ~startswith(last.body, NickPrefix)

\* C1: a contact whose subscription is both is in get_online_users() exactly
\* when some resource of it has announced availability and not announced
\* unavailability since; an unavailability of one resource leaves a contact
\* with another available resource online.
C1_OnlineIffAnnounced ==
  /\ \A c \in Bares : SubscriptionOf(c) = "both" =>
       (c \in Online <=> \E r \in Resources : <<c, r>> \in announced)
  /\ (/\ last.kind = "unavailable"
      /\ SubscriptionOf(last.from.bare) = "both"
      /\ \E r \in Resources \ {last.from.resource} : <<last.from.bare, r>> \in announced)
     => last.from.bare \in Online

\* one resource of a mutually subscribed contact went away, another is left
C1_Witness ==
  /\ last.kind = "unavailable"
  /\ SubscriptionOf(last.from.bare) = "both"
  /\ replaced # NoRecordYet
  /\ last.from.resource \notin DOMAIN presence[last.from.bare]
  /\ DOMAIN presence[last.from.bare] # {}
  /\ last.from.bare \in Online

\* C2: a contact whose subscription is none, to or from is never in
\* get_online_users(), whatever its presence records, and no broadcast and no
\* nickname announcement is addressed to it.
C2_OnlyMutualOnline ==
  /\ \A c \in Bares : SubscriptionOf(c) # "both" => c \notin Online
  /\ last.kind = "message" =>
       \A i \in 1..Len(out) :
         out[i].body \notin {Pong, NickUpdated} => SubscriptionOf(out[i].to.bare) = "both"

\* a broadcast reached somebody while a contact that is present but not
\* mutually subscribed got nothing
C2_Witness ==
  /\ Broadcast
  /\ Len(out) >= 1
  /\ \E c \in Bares \ {last.from.bare} :
       /\ SubscriptionOf(c) \in {"none", "to", "from"}
       /\ c \in DOMAIN presence
       /\ DOMAIN presence[c] # {}
       /\ SentTo(BareJID(c)) = 0

\* C3: a broadcast sends exactly one message "[<display name>] <text>" to each
\* online contact other than the sender's bare JID and nothing to anybody else,
\* the sender included; with nobody else online it sends nothing; it does not
\* raise.
C3_BroadcastDelivery ==
  Broadcast =>
    /\ raised = None
    /\ \A c \in Eligible \ {last.from.bare} : SentTo(BareJID(c)) = 1
    /\ \A i \in 1..Len(out) :
         /\ out[i].stanza = "message"
         /\ out[i].to.resource = None
         /\ out[i].to.bare \in Eligible \ {last.from.bare}
         /\ out[i].body = <<"[">> \o DisplayName(roster, last.from.bare)
                            \o <<"]", " ">> \o last.body
    /\ (Eligible \ {last.from.bare} = {} => out = <<>>)

\* an online sender broadcast to another online contact
C3_Witness ==
  /\ Broadcast
  /\ last.from.bare \in Eligible
  /\ Len(out) >= 1

\* the stored names of all contacts
Names(ros) == [c \in DOMAIN ros |-> ros[c].name]

\* the text after "-nick " and the whitespace that follows it
NickArgument(body) ==
  LET rest == SubSeq(body, Len(NickPrefix) + 1, Len(body))
      first == Scan(rest, 1, FALSE)
  IN  SubSeq(rest, first, Len(rest))

\* the event is a nickname command that names a nickname
IsNickCommand(ev) ==
  /\ ev.kind = "message"
  /\ ev.body # NoBody
  /\ startswith(ev.body, NickPrefix)
  /\ NickArgument(ev.body) # <<>>

\* the event is "-nick " followed by nothing or by whitespace only
IsBlankNickCommand(ev) ==
  /\ ev.kind = "message"
  /\ ev.body # NoBody
  /\ startswith(ev.body, NickPrefix)
  /\ NickArgument(ev.body) = <<>>

\* C4: the body ping is answered by exactly one message pong to the sender's
\* bare JID; nobody else receives anything and neither the presence store nor
\* a display name changes.
C4_PingPong ==
  [][(last'.kind = "message" /\ last'.body = Ping) =>
       /\ out' = <<Message(BareJID(last'.from.bare), Pong)>>
       /\ raised' = None
       /\ presence' = presence
       /\ Names(roster') = Names(roster)]_vars

\* a ping was handled while another contact was online
C4_Witness ==
  /\ last.kind = "message"
  /\ last.body = Ping
  /\ Len(out) = 1
  /\ Eligible \ {last.from.bare} # {}

\* C5: "-nick <new>" sends one confirmation to the sender and the announcement
\* "<old name> is now known as <new>" once to every online contact except the
\* sender; the old name is the sender's display name before the update and
\* the body has no "[sender] " prefix.
C5_NickAnnouncement ==
  [][IsNickCommand(last') =>
       LET A == last'.from
           text == DisplayName(roster, A.bare) \o NowKnownAs
                     \o NickArgument(last'.body) \o FullStop
           to == {c \in Bares \ {A.bare} :
                    /\ c \in DOMAIN roster'
                    /\ roster'[c].subscription = "both"
                    /\ c \in DOMAIN presence'
                    /\ DOMAIN presence'[c] # {}}
       IN  /\ raised' = None
           /\ Len(out') = 1 + Cardinality(to)
           /\ out'[1] = Message(A, NickUpdated)
           /\ \A c \in to : \E i \in 2..Len(out') : out'[i].to = BareJID(c)
           /\ \A i \in 2..Len(out') :
                /\ out'[i].to.resource = None
                /\ out'[i].to.bare \in to
                /\ out'[i].stanza = "message"
                /\ out'[i].body = text]_vars

\* an online contact with a stored name changed it and another online contact
\* was told
C5_Witness ==
  /\ IsNickCommand(last)
  /\ last.from.bare \in Eligible
  /\ Len(out) >= 2
  /\ out[2].body[1] \notin {"a", "b", "c"}

\* C6: once "-nick N" from A has been handled, get_name(A) is N and every
\* broadcast of A is delivered as "[N] <text>", until A changes it again.
C6_NickRoundTrip ==
  /\ IsNickCommand(last) =>
       /\ raised = None
       /\ nickOf[last.from.bare] = NickArgument(last.body)
       /\ get_name(roster, last.from, FALSE) = NickArgument(last.body)
  /\ \A a \in Bares : nickOf[a] # NoName =>
       /\ get_name(roster, BareJID(a), FALSE) = nickOf[a]
       /\ (Broadcast /\ last.from.bare = a) =>
            \A i \in 1..Len(out) :
              out[i].body = <<"[">> \o nickOf[a] \o <<"]", " ">> \o last.body

\* a contact that chose a nickname broadcast to an online contact
C6_Witness ==
  /\ Broadcast
  /\ nickOf[last.from.bare] # NoName
  /\ Len(out) >= 1

\* C7: "-nick " followed by nothing or whitespace only is relayed like ordinary
\* text to the online contacts other than the sender; no name changes, no
\* confirmation is sent and the handler does not raise.
C7_BlankNickIsBroadcast ==
  [][IsBlankNickCommand(last') =>
       /\ raised' = None
       /\ Names(roster') = Names(roster)
       /\ \A i \in 1..Len(out') : out'[i].body # NickUpdated
       /\ \A c \in Eligible \ {last'.from.bare} :
            \E i \in 1..Len(out') :
              /\ out'[i].to = BareJID(c)
              /\ out'[i].body = <<"[">> \o DisplayName(roster, last'.from.bare)
                                  \o <<"]", " ">> \o last'.body]_vars

\* the key was absent: nothing recorded for the pair of the event
NoRecord(pres, jid) ==
  \/ jid.bare \notin DOMAIN pres
  \/ jid.resource \notin DOMAIN pres[jid.bare]

\* C8: an unavailability for a pair without a record raises nothing and leaves
\* the presence store as it was, its set of bare-JID keys included.
C8_UnavailableAbsentNoChange ==
  [][(last'.kind = "unavailable" /\ NoRecord(presence, last'.from)) =>
       /\ raised' = None
       /\ DOMAIN presence' = DOMAIN presence
       /\ presence' = presence]_vars

\* the event is an availability announcement the handler accepts
IsAvailability(ev) ==
  /\ ev.kind = "presence"
  /\ ev.type \in {"available", None}

\* C9: an availability announcement for a pair whose earlier announcement
\* stands leaves one record for the pair, with the show, status and priority
\* of the later announcement; the keys of the presence store, the other
\* records and the size of the online set are as after the first.
C9_AvailableTwice ==
  [][(/\ IsAvailability(last')
      /\ <<last'.from.bare, last'.from.resource>> \in announced) =>
       LET b == last'.from.bare
           r == last'.from.resource
       IN  /\ raised' = None
           /\ DOMAIN presence' = DOMAIN presence
           /\ DOMAIN presence'[b] = DOMAIN presence[b]
           /\ presence'[b][r] = last'.payload
           /\ \A c \in DOMAIN presence : \A q \in DOMAIN presence[c] :
                <<c, q>> # <<b, r>> => presence'[c][q] = presence[c][q]
           /\ Len(get_online_users(roster', presence'))
                = Len(get_online_users(roster, presence))]_vars

\* the second announcement carried other values than the first
C9_Witness ==
  /\ IsAvailability(last)
  /\ replaced # NoRecordYet
  /\ replaced # last.payload
  /\ presence[last.from.bare][last.from.resource] = last.payload
  /\ last.from.bare \in Online

\* C10: no presence, subscription or message handler raises, whatever the
\* events; only the disconnection event ends the event loop.
C10_NoHandlerRaises ==
  /\ raised = None
  /\ loop # "running" => last.kind = "disconnected"

\* the record of a pair, NoRecordYet for a pair without one
RecordOf(pres, b, r) ==
  IF b \in DOMAIN pres /\ r \in DOMAIN pres[b] THEN pres[b][r] ELSE NoRecordYet

\* C11: a resource key exists under a bare JID in the presence store exactly
\* when the latest presence event handled for that pair was an availability
\* announcement, and no event changes the record of a pair other than its own.
C11_KeysFollowAnnouncements ==
  /\ [](\A b \in Bares : \A r \in Resources :
          (b \in DOMAIN presence /\ r \in DOMAIN presence[b]) <=> <<b, r>> \in announced)
  /\ [][\A b \in Bares : \A r \in Resources :
          <<b, r>> # <<last'.from.bare, last'.from.resource>> =>
            RecordOf(presence', b, r) = RecordOf(presence, b, r)]_vars

\* a second resource of a contact announced itself and the first kept its
\* record
C11_Witness ==
  /\ IsAvailability(last)
  /\ replaced = NoRecordYet
  /\ DOMAIN presence[last.from.bare] = Resources
  /\ announced = {<<last.from.bare, r>> : r \in Resources}

\* C12: a subscribe request yields exactly an accept response to the requester
\* and a subscribe request to the requester's bare JID, an unsubscribe request
\* an accept response and a mirrored unsubscribe request, the two
\* confirmations nothing; none of the four changes the presence store.
C12_SubscriptionReplies ==
  [][/\ last'.kind = "subscribe" =>
          out' = <<Presence(last'.from, "subscribed"),
                   Presence(BareJID(last'.from.bare), "subscribe")>>
     /\ last'.kind = "unsubscribe" =>
          out' = <<Presence(last'.from, "unsubscribed"),
                   Presence(BareJID(last'.from.bare), "unsubscribe")>>
     /\ last'.kind \in {"subscribed", "unsubscribed"} => out' = <<>>
     /\ last'.kind \in {"subscribe", "subscribed", "unsubscribe", "unsubscribed"} =>
          /\ presence' = presence
          /\ raised' = None]_vars

\* a subscribe request was answered while the requester had presence records
C12_Witness ==
  /\ last.kind = "subscribe"
  /\ Len(out) = 2
  /\ n >= 2
  /\ last.from.bare \in DOMAIN presence
  /\ DOMAIN presence[last.from.bare] # {}

\* C13: get_name never fails and depends only on the bare JID: for a str or a
\* JID, with or without a resource, it returns the stored name of the bare JID
\* when that is non-empty and else its pseudonym; a missing roster item is
\* like an item without a name.
C13_NameByBareIdentity ==
  last.kind = "get_name" =>
    /\ raised = None
    /\ ret = DisplayName(roster, last.from.bare)

\* C14: get_online_users() is a pure read: a handler that calls it for a
\* broadcast or a nickname announcement leaves the presence store as it was,
\* its set of bare-JID keys included, and the query changes no roster item.
C14_OnlineQueryIsPure ==
  [][logged' # <<>> =>
       /\ DOMAIN presence' = DOMAIN presence
       /\ presence' = presence
       /\ (~IsNickCommand(last') => roster' = roster)]_vars

\* C15: a presence stanza whose type is neither available nor absent is
\* declined by the availability handler: it returns False, raises nothing,
\* creates or changes no presence record and sends nothing.
C15_UnexpectedTypeDeclined ==
  [][(last'.kind = "presence" /\ last'.type \notin {"available", None}) =>
       /\ ret' = "False"
       /\ raised' = None
       /\ presence' = presence
       /\ out' = <<>>]_vars

\* a stanza of another type arrived from a resource that has a record
C15_Witness ==
  /\ last.kind = "presence"
  /\ last.type = "probe"
  /\ ret = "False"
  /\ last.from.bare \in DOMAIN presence
  /\ last.from.resource \in DOMAIN presence[last.from.bare]
  /\ presence[last.from.bare][last.from.resource].show = "away"

\* C16: a chat message without a body is acknowledged and dropped: it returns
\* True, sends nothing, changes no display name, does not compute the online
\* set and leaves the presence store as it was.
C16_TypingDropped ==
  [][(last'.kind = "message" /\ last'.body = NoBody) =>
       /\ ret' = "True"
       /\ raised' = None
       /\ out' = <<>>
       /\ logged' = <<>>
       /\ roster' = roster
       /\ presence' = presence]_vars

\* a typing notification arrived while another contact was online and a
\* mutually subscribed contact had no key in the presence store
C16_Witness ==
  /\ last.kind = "message"
  /\ last.body = NoBody
  /\ ret = "True"
  /\ Eligible \ {last.from.bare} # {}
  /\ \E c \in Bares : SubscriptionOf(c) = "both" /\ c \notin DOMAIN presence

\* the last handler called get_online_users()
Queried ==
  /\ raised = None
  /\ \/ Broadcast
     \/ IsNickCommand(last)

\* the contacts get_online_users() returned, in roster order
Kept == SelectSeq(Contacts, LAMBDA c : c \in Eligible)

C17_OnlyDisconnectStops ==
  [][/\ loop = "running"
     /\ last'.kind = "disconnected" => (loop' = "quit" /\ out' = <<>>)
     /\ last'.kind # "disconnected" => loop' = "running"]_vars

\* the subscription of a contact, none for a contact the roster does not list
SubState(ros, c) == IF c \in DOMAIN ros THEN ros[c].subscription ELSE "none"

\* the stored name of a contact, NoName for a contact the roster does not list
StoredName(ros, c) == IF c \in DOMAIN ros THEN ros[c].name ELSE NoName

\* C19: relaying does not depend on the sender's own eligibility: a broadcast
\* or a nickname announcement of a sender that is not mutually subscribed, has
\* no presence record or is not in the roster goes once to every online
\* contact, the sender shown by its stored name or else its pseudonym.
C19_SenderNeedNotBeOnline ==
  [][(/\ Broadcast' \/ IsNickCommand(last')
      /\ last'.from.bare \notin Eligible') =>
       LET A == last'.from.bare
           shown == DisplayName(roster, A)
           relayed == IF IsNickCommand(last') THEN Tail(out') ELSE out'
           text == IF IsNickCommand(last')
                   THEN shown \o NowKnownAs \o NickArgument(last'.body) \o FullStop
                   ELSE <<"[">> \o shown \o <<"]", " ">> \o last'.body
       IN  /\ raised' = None
           /\ Len(relayed) = Cardinality(Eligible')
           /\ \A c \in Eligible' : \E i \in 1..Len(relayed) : relayed[i].to = BareJID(c)
           /\ \A i \in 1..Len(relayed) :
                /\ relayed[i].to.resource = None
                /\ relayed[i].to.bare \in Eligible'
                /\ relayed[i].body = text]_vars

\* a sender the roster does not list broadcast to an online contact under its
\* pseudonym
C19_Witness ==
  /\ Broadcast
  /\ last.from.bare \notin DOMAIN roster
  /\ last.from.bare \notin DOMAIN presence
  /\ Len(out) >= 1
  /\ out[1].body = <<"[">> \o Local(last.from.bare) \o <<"@">>
                     \o Md5Hex6(last.from.bare) \o <<"]", " ">> \o last.body

\* C20: a nickname change touches only the sender's own roster item: the name
\* of the sender's bare JID becomes the new one; the names of all other
\* contacts, the subscription of every contact and every presence record are
\* as before.
C20_NickTouchesOnlySender ==
  [][IsNickCommand(last') =>
       LET A == last'.from.bare
       IN  /\ StoredName(roster', A) = NickArgument(last'.body)
           /\ DOMAIN roster' = DOMAIN roster \cup {A}
           /\ \A c \in Bares \ {A} : StoredName(roster', c) = StoredName(roster, c)
           /\ \A c \in Bares : SubState(roster', c) = SubState(roster, c)
           /\ \A c \in Bares : \A r \in Resources :
                RecordOf(presence', c, r) = RecordOf(presence, c, r)]_vars

\* a mutually subscribed contact with presence records changed its nickname
\* while another contact had a stored name
C20_Witness ==
  /\ IsNickCommand(last)
  /\ SubscriptionOf(last.from.bare) = "both"
  /\ last.from.bare \in Eligible
  /\ \E c \in Bares \ {last.from.bare} :
       /\ StoredName(roster, c) # NoName
       /\ c \in Eligible

====
